---- MODULE Spec2Model ----
(***************************************************************************)
(* A model of the ebay_bot pipeline: get_stores.py (scrape_store,          *)
(* count_quantity_revisions), find_retailer.py (is_access_denied,          *)
(* parse_price, extract_price_from_page, search_duckduckgo) and            *)
(* run_pipeline.py (run_pipeline).                                         *)
(*                                                                         *)
(* Python values are records tagged by type: None is [t |-> "None"], a str *)
(* is [t |-> "str", s |-> <<characters>>], a float is                      *)
(* [t |-> "float", n |-> N, k |-> K] standing for N / 10^K.  A call of the *)
(* page-rendering service that raises is the value Raises (or              *)
(* RaisesTimeout for Playwright's TimeoutError) in the place of the value  *)
(* the call would have returned.                                           *)
(***************************************************************************)
EXTENDS Integers, Sequences, FiniteSets, TLC

\* ------------------------------------------------------------------------
\* Python values
\* ------------------------------------------------------------------------
None == [t |-> "None"]

Str(chars) == [t |-> "str", s |-> chars]

Float(n, k) == [t |-> "float", n |-> n, k |-> k]

Raises == [t |-> "raise", exc |-> "Exception"]

RaisesTimeout == [t |-> "raise", exc |-> "TimeoutError"]

IsRaise(v) == v.t = "raise"

IsNone(v) == v.t = "None"

\* ------------------------------------------------------------------------
\* Characters
\* ------------------------------------------------------------------------
DigitChars == {"0", "1", "2", "3", "4", "5", "6", "7", "8", "9"}

IsDigit(c) == c \in DigitChars

IsSpace(c) == c \in {" ", "\n", "\t"}

DigitVal(c) ==
  CASE c = "0" -> 0 [] c = "1" -> 1 [] c = "2" -> 2 [] c = "3" -> 3
    [] c = "4" -> 4 [] c = "5" -> 5 [] c = "6" -> 6 [] c = "7" -> 7
    [] c = "8" -> 8 [] c = "9" -> 9

DigitChar(d) ==
  CASE d = 0 -> "0" [] d = 1 -> "1" [] d = 2 -> "2" [] d = 3 -> "3"
    [] d = 4 -> "4" [] d = 5 -> "5" [] d = 6 -> "6" [] d = 7 -> "7"
    [] d = 8 -> "8" [] d = 9 -> "9"

\* str.lower() on the letters the sample texts use.
LowerChar(c) ==
  CASE c = "A" -> "a" [] c = "B" -> "b" [] c = "C" -> "c" [] c = "D" -> "d"
    [] c = "E" -> "e" [] c = "F" -> "f" [] c = "G" -> "g" [] c = "H" -> "h"
    [] c = "I" -> "i" [] c = "J" -> "j" [] c = "K" -> "k" [] c = "L" -> "l"
    [] c = "M" -> "m" [] c = "N" -> "n" [] c = "O" -> "o" [] c = "P" -> "p"
    [] c = "Q" -> "q" [] c = "R" -> "r" [] c = "S" -> "s" [] c = "T" -> "t"
    [] c = "U" -> "u" [] c = "V" -> "v" [] c = "W" -> "w" [] c = "X" -> "x"
    [] c = "Y" -> "y" [] c = "Z" -> "z" [] OTHER -> c

Lower(s) == [i \in 1..Len(s) |-> LowerChar(s[i])]

\* needle in s (Python's substring test on two character sequences)
Contains(s, needle) ==
  \E i \in 1..(Len(s) - Len(needle) + 1) :
    SubSeq(s, i, i + Len(needle) - 1) = needle

StartsWith(s, prefix) ==
  /\ Len(s) >= Len(prefix)
  /\ SubSeq(s, 1, Len(prefix)) = prefix

\* the least index at which needle occurs in s, 0 when it does not
Find(s, needle) ==
  IF Contains(s, needle)
    THEN CHOOSE i \in 1..(Len(s) - Len(needle) + 1) :
           /\ SubSeq(s, i, i + Len(needle) - 1) = needle
           /\ \A j \in 1..(i - 1) : SubSeq(s, j, j + Len(needle) - 1) # needle
    ELSE 0

\* s.replace(c, "") for a one-character c
RemoveChar(s, c) == SelectSeq(s, LAMBDA x : x # c)

\* s.strip()
Strip(s) ==
  LET keep == {i \in 1..Len(s) : ~IsSpace(s[i])}
  IN IF keep = {} THEN <<>>
     ELSE SubSeq(s, CHOOSE i \in keep : \A j \in keep : i <= j,
                    CHOOSE i \in keep : \A j \in keep : i >= j)

RECURSIVE Pow10(_)
Pow10(k) == IF k = 0 THEN 1 ELSE 10 * Pow10(k - 1)

RECURSIVE DigitsVal(_)
DigitsVal(s) ==
  IF s = <<>> THEN 0
  ELSE 10 * DigitsVal(SubSeq(s, 1, Len(s) - 1)) + DigitVal(s[Len(s)])

RECURSIVE NatChars(_)
NatChars(n) ==
  IF n < 10 THEN <<DigitChar(n)>>
  ELSE NatChars(n \div 10) \o <<DigitChar(n % 10)>>

\* ------------------------------------------------------------------------
\* float(text) and str(float)
\* ------------------------------------------------------------------------
\* float() of a stripped text: an optional sign, digits with at most one
\* point and at least one digit.  Anything else raises ValueError, written
\* None here.  (The sample texts hold no exponent and no underscore; "nan"
\* and "inf" parse in Python but fail every range test, as None does.)
PyFloat(s) ==
  LET neg    == s # <<>> /\ s[1] = "-"
      body   == IF s # <<>> /\ s[1] \in {"+", "-"} THEN Tail(s) ELSE s
      points == {i \in 1..Len(body) : body[i] = "."}
      digits == RemoveChar(body, ".")
  IN IF /\ digits # <<>>
        /\ \A i \in 1..Len(digits) : IsDigit(digits[i])
        /\ Cardinality(points) <= 1
       THEN [t |-> "float", n |-> DigitsVal(digits),
             k |-> IF points = {} THEN 0
                   ELSE Len(body) - (CHOOSE i \in points : TRUE),
             neg |-> neg]
       ELSE None

\* a <= b on two non-negative floats
FloatLeq(a, b) == a.n * Pow10(b.k) <= b.n * Pow10(a.k)

RECURSIVE StripTrailingZeros(_)
StripTrailingZeros(s) ==
  IF s # <<>> /\ s[Len(s)] = "0"
    THEN StripTrailingZeros(SubSeq(s, 1, Len(s) - 1))
    ELSE s

RECURSIVE PadLeft(_, _)
PadLeft(s, k) == IF Len(s) >= k THEN s ELSE PadLeft(<<"0">> \o s, k)

\* str(value) of a float in parse_price's range: the shortest repr,
\* "149.0" for 149, "12.5" for 12.50
FloatStr(f) ==
  LET whole == f.n \div Pow10(f.k)
      frac  == StripTrailingZeros(PadLeft(NatChars(f.n % Pow10(f.k)), f.k))
  IN Str(NatChars(whole) \o <<".">> \o (IF frac = <<>> THEN <<"0">> ELSE frac))

\* str(x) as parse_price and strategy 1 apply it
PyStr(v) ==
  CASE v.t = "str"   -> v
    [] v.t = "None"  -> Str(<<"N", "o", "n", "e">>)
    [] v.t = "float" -> FloatStr(v)

\* ------------------------------------------------------------------------
\* find_retailer.py: parse_price
\* ------------------------------------------------------------------------
parse_price(price_str) ==
  LET text  == Strip(RemoveChar(RemoveChar(PyStr(price_str).s, ","), "$"))
      value == PyFloat(text)
  IN IF /\ value.t = "float"
        /\ ~value.neg
        /\ 2 * value.n >= Pow10(value.k)            \* 0.5 <= value
        /\ value.n <= 50000 * Pow10(value.k)        \* value <= 50000
       THEN Float(value.n, value.k)
       ELSE None

\* ------------------------------------------------------------------------
\* find_retailer.py: is_access_denied
\* ------------------------------------------------------------------------
\* A rendered page, as the queries of the page-rendering service answer:
\*   title     page.title(): a str, or Raises
\*   h1, h2    page.query_selector_all("h1" / "h2"): Raises, or
\*             [t |-> "list", v |-> <<each element's inner_text(): a str or Raises>>]
\*   ldjson    page.query_selector_all("script[type='application/ld+json']"):
\*             Raises, or a list of scripts, each Raises (inner_text() raises)
\*             or the document json.loads gives (JInvalid when it raises)
\*   meta      page.query_selector("meta[property='product:price:amount']"):
\*             Raises, None, or [t |-> "element", content |-> get_attribute("content")]
\*   selectors for each of the six selectors, Raises or a list of elements
\*             [evaluate |-> a str or Raises, inner_text |-> a str or Raises]
\*   body      page.inner_text("body"): a str or Raises
List(v) == [t |-> "list", v |-> v]

W_access_denied == <<"a", "c", "c", "e", "s", "s", " ", "d", "e", "n", "i", "e", "d">>

W_403 == <<"4", "0", "3">>

W_blocked == <<"b", "l", "o", "c", "k", "e", "d">>

W_captcha == <<"c", "a", "p", "t", "c", "h", "a">>

W_just_a_moment == <<"j", "u", "s", "t", " ", "a", " ", "m", "o", "m", "e", "n", "t">>

\* the list of the title test (line 22)
TitleBlocklist == {W_access_denied, W_403, W_blocked, W_captcha, W_just_a_moment}

\* a heading list without "403", which C6_BlockedSkips tells apart from
\* the list of line 26
HeadingBlocklistWithout403 == {W_access_denied, W_blocked}

\* the list of the heading test (line 26)
HeadingBlocklist == {W_access_denied, W_403, W_blocked}

\* the scan of one selector's elements inside the try block: "blocked" at the
\* first element whose text holds a blocklist entry, "raise" at the first
\* element whose inner_text() raises, "clean" at the end of the list
RECURSIVE HeadingScan(_)
HeadingScan(els) ==
  IF els = <<>> THEN "clean"
  ELSE IF IsRaise(Head(els)) THEN "raise"
  ELSE IF \E x \in HeadingBlocklist : Contains(Lower(Head(els).s), x) THEN "blocked"
  ELSE HeadingScan(Tail(els))

SelectorScan(answer) == IF IsRaise(answer) THEN "raise" ELSE HeadingScan(answer.v)

is_access_denied(page) ==
  IF IsRaise(page.title) THEN FALSE
  ELSE IF \E x \in TitleBlocklist : Contains(Lower(page.title.s), x) THEN TRUE
  ELSE LET h1 == SelectorScan(page.h1)
       IN IF h1 = "blocked" THEN TRUE
          ELSE IF h1 = "raise" THEN FALSE
          ELSE SelectorScan(page.h2) = "blocked"

\* ------------------------------------------------------------------------
\* find_retailer.py: the regular expressions of strategies 3 and 4
\* ------------------------------------------------------------------------
\* the end of the match of \d+[.,]?\d{0,2} that starts at the digit s[i]:
\* the whole digit run, one separator if it follows, then up to two digits
RECURSIVE DigitRunEnd(_, _)
DigitRunEnd(s, i) ==
  IF i + 1 <= Len(s) /\ IsDigit(s[i + 1]) THEN DigitRunEnd(s, i + 1) ELSE i

PriceMatchEnd(s, i) ==
  LET e1 == DigitRunEnd(s, i)
      e2 == IF e1 + 1 <= Len(s) /\ s[e1 + 1] \in {".", ","} THEN e1 + 1 ELSE e1
      d1 == e2 > e1 /\ e2 + 1 <= Len(s) /\ IsDigit(s[e2 + 1])
      d2 == d1 /\ e2 + 2 <= Len(s) /\ IsDigit(s[e2 + 2])
  IN IF d2 THEN e2 + 2 ELSE IF d1 THEN e2 + 1 ELSE e2

\* re.search(r"\d+[.,]?\d{0,2}", text): the match's text, or None
re_search_price(s) ==
  LET ds == {i \in 1..Len(s) : IsDigit(s[i])}
  IN IF ds = {} THEN None
     ELSE LET i == CHOOSE i \in ds : \A j \in ds : i <= j
          IN Str(SubSeq(s, i, PriceMatchEnd(s, i)))

\* the first digit at or after s[i] once whitespace is skipped, 0 if the
\* next character that is no whitespace is no digit
RECURSIVE SkipSpace(_, _)
SkipSpace(s, i) ==
  IF i > Len(s) THEN 0
  ELSE IF IsSpace(s[i]) THEN SkipSpace(s, i + 1)
  ELSE IF IsDigit(s[i]) THEN i
  ELSE 0

\* re.findall(r"\$\s*(\d+[.,]?\d{0,2})", body) from position i on: the
\* groups of the non-overlapping matches, left to right
RECURSIVE re_findall_dollar(_, _)
re_findall_dollar(s, i) ==
  IF i > Len(s) THEN <<>>
  ELSE IF s[i] = "$" /\ SkipSpace(s, i + 1) # 0
    THEN LET j == SkipSpace(s, i + 1)
             e == PriceMatchEnd(s, j)
         IN <<Str(SubSeq(s, j, e))>> \o re_findall_dollar(s, e + 1)
  ELSE re_findall_dollar(s, i + 1)

\* ------------------------------------------------------------------------
\* find_retailer.py: extract_price_from_page
\* ------------------------------------------------------------------------
\* json.loads results: JInvalid (it raises), an array, or an object whose
\* "offers" is absent, an array, or an object whose "price" is absent or a
\* JSON string (a str), number ([t |-> "int"] or a float) or null (None)
JAbsent == [t |-> "absent"]

JInvalid == [t |-> "invalid"]

JArray == [t |-> "array"]

JObject(offers) == [t |-> "object", offers |-> offers]

JOffers(price) == [t |-> "object", price |-> price]

JInt(n) == [t |-> "int", n |-> n]

\* str(offers["price"])
PriceStr(price) == IF price.t = "int" THEN Str(NatChars(price.n)) ELSE PyStr(price)

\* one script of strategy 1: the price string it returns, None when the
\* script is passed over (also when reading or decoding it raises: line 65)
ScriptPrice(script) ==
  IF IsRaise(script) \/ script.t # "object" THEN None
  ELSE IF script.offers.t # "object" THEN None
  ELSE IF script.offers.price.t = "absent" THEN None
  ELSE IF parse_price(PriceStr(script.offers.price)).t = "None" THEN None
  ELSE PriceStr(script.offers.price)

RECURSIVE FirstScriptPrice(_)
FirstScriptPrice(scripts) ==
  IF scripts = <<>> THEN None
  ELSE IF ScriptPrice(Head(scripts)).t # "None" THEN ScriptPrice(Head(scripts))
  ELSE FirstScriptPrice(Tail(scripts))

\* 1: JSON-LD structured data (lines 54-66)
StructuredData(page) ==
  IF IsRaise(page.ldjson) THEN Raises ELSE FirstScriptPrice(page.ldjson.v)

\* 2: meta property price (lines 68-73)
MetaTag(page) ==
  IF IsRaise(page.meta) THEN Raises
  ELSE IF page.meta.t = "None" THEN None
  ELSE IF IsRaise(page.meta.content) THEN Raises
  ELSE IF parse_price(page.meta.content).t = "None" THEN None
  ELSE page.meta.content

\* reading an element without the inner_text() fallback, which
\* C8_ErrorPaths tells apart from lines 88-99
ElementTextNoFallback(el) ==
  IF ~IsRaise(el.evaluate) THEN Str(Strip(el.evaluate.s)) ELSE Raises

\* the text of one element (lines 88-99): evaluate(), or inner_text() when
\* evaluate() raises; Raises when both do
ElementText(el) ==
  IF ~IsRaise(el.evaluate) THEN Str(Strip(el.evaluate.s))
  ELSE IF ~IsRaise(el.inner_text) THEN Str(Strip(el.inner_text.s))
  ELSE Raises

\* one element of strategy 3: the matched price, None, or Raises
ElementPrice(el) ==
  LET text == ElementText(el)
  IN IF IsRaise(text) THEN Raises
     ELSE LET match == re_search_price(text.s)
          IN IF match.t = "None" THEN None
             ELSE IF parse_price(match).t = "None" THEN None
             ELSE match

RECURSIVE FirstElementPrice(_)
FirstElementPrice(els) ==
  IF els = <<>> THEN None
  ELSE IF ElementPrice(Head(els)).t # "None" THEN ElementPrice(Head(els))
  ELSE FirstElementPrice(Tail(els))

\* the selectors of lines 76-83, by their place in the list
NumSelectors == 6

RECURSIVE ScanSelectors(_, _)
ScanSelectors(page, i) ==
  IF i > NumSelectors THEN None
  ELSE IF IsRaise(page.selectors[i]) THEN Raises
  ELSE LET r == FirstElementPrice(page.selectors[i].v)
       IN IF r.t # "None" THEN r ELSE ScanSelectors(page, i + 1)

\* 3: common ecommerce selectors (lines 75-105)
SelectorStrategy(page) == ScanSelectors(page, 1)

RECURSIVE ValidPrices(_)
ValidPrices(matches) ==
  IF matches = <<>> THEN {}
  ELSE (IF parse_price(Head(matches)).t = "None" THEN {}
        ELSE {parse_price(Head(matches))}) \cup ValidPrices(Tail(matches))

\* 4: the highest $-prefixed value of the body text (lines 107-121)
FullText(page) ==
  IF IsRaise(page.body) THEN None
  ELSE LET prices == ValidPrices(re_findall_dollar(page.body.s, 1))
       IN IF prices = {} THEN None
          ELSE FloatStr(CHOOSE m \in prices : \A q \in prices : FloatLeq(q, m))

RunStrategy(name, page) ==
  CASE name = "structured" -> StructuredData(page)
    [] name = "meta"       -> MetaTag(page)
    [] name = "selector"   -> SelectorStrategy(page)
    [] name = "fulltext"   -> FullText(page)

\* the selector scan ahead of the structured data, which C5_CascadeOrder
\* tells apart from the order of the function body
SelectorFirstOrder == <<"selector", "structured", "meta", "fulltext">>

\* the order in which the function body runs the strategies
CascadeOrder == <<"structured", "meta", "selector", "fulltext">>

\* the strategies in order: the first result that is no miss (a price, or
\* an exception that leaves the function) ends the run
RECURSIVE Cascade(_, _, _)
Cascade(page, order, ran) ==
  IF order = <<>> THEN [result |-> None, ran |-> ran]
  ELSE LET r == RunStrategy(Head(order), page)
       IN IF r.t = "None"
            THEN Cascade(page, Tail(order), Append(ran, Head(order)))
            ELSE [result |-> r, ran |-> Append(ran, Head(order))]

\* result: the returned str, None, or Raises when an exception leaves the
\* function; ran: the strategies that were run, in order
extract_price_from_page(page) ==
  IF is_access_denied(page) THEN [result |-> None, ran |-> <<>>]
  ELSE Cascade(page, CascadeOrder, <<>>)

\* ------------------------------------------------------------------------
\* Sample pages: the texts, and the answers to each query, that the pages
\* of the model are built from
\* ------------------------------------------------------------------------
T_Shop == <<"S", "h", "o", "p">>

T_AccessDenied == <<"A", "c", "c", "e", "s", "s", " ", "D", "e", "n", "i", "e", "d">>

T_JustAMoment == <<"J", "u", "s", "t", " ", "a", " ", "m", "o", "m", "e", "n", "t", ".", ".", ".">>

T_Sale == <<"S", "a", "l", "e">>

T_Error403 == <<"E", "r", "r", "o", "r", " ", "4", "0", "3">>

T_Captcha == <<"P", "l", "e", "a", "s", "e", " ", "c", "o", "m", "p", "l", "e", "t", "e", " ", "t", "h", "e", " ", "C", "A", "P", "T", "C", "H", "A">>

T_Blocked == <<"B", "l", "o", "c", "k", "e", "d">>

T_19_99 == <<"1", "9", ".", "9", "9">>

T_0_10 == <<"0", ".", "1", "0">>

T_29_95 == <<"2", "9", ".", "9", "5">>

T_free == <<"f", "r", "e", "e">>

T_39_00 == <<"$", "3", "9", ".", "0", "0">>

T_Now45 == <<"N", "o", "w", " ", "4", "5", ",", "5", " ", "e", "a", "c", "h">>

T_CallUs == <<"c", "a", "l", "l", " ", "u", "s">>

T_Off == <<"0", ".", "1", "0", " ", "o", "f", "f">>

T_1234 == <<"$", "1", ",", "2", "3", "4", ".", "5", "6">>

T_NoPrice == <<"n", "o", " ", "p", "r", "i", "c", "e", " ", "h", "e", "r", "e">>

T_Body3 == <<"$", "1", "9", ".", "9", "9", " ", "w", "a", "s", " ", "$", "5", " ", "r", "r", "p", " ", "$", "1", "4", "9", ".", "0", "0">>

T_BodyLow == <<"o", "n", "l", "y", " ", "$", " ", "0", ".", "1", "0", " ", "m", "o", "r", "e">>


SampleTitles == {Str(T_Shop), Str(T_AccessDenied), Str(T_JustAMoment), Raises}

\* the answers to query_selector_all("h1") and ("h2")
SampleHeadings ==
  { [h1 |-> List(<<>>),                               h2 |-> List(<<>>)],
    [h1 |-> List(<<Str(T_Sale)>>),                    h2 |-> List(<<Str(T_Error403)>>)],
    [h1 |-> List(<<Str(T_Captcha)>>),                 h2 |-> List(<<>>)],
    [h1 |-> List(<<Raises, Str(T_Blocked)>>),         h2 |-> List(<<>>)],
    [h1 |-> Raises,                                   h2 |-> List(<<Str(T_Blocked)>>)] }

SampleLdJson ==
  { List(<<>>),
    Raises,
    List(<<JInvalid, JObject(JOffers(Str(T_19_99)))>>),
    List(<<JInvalid, JArray, JObject(JAbsent), JObject(JArray), JObject(JOffers(JAbsent)),
           JObject(JOffers(Str(T_0_10))), JObject(JOffers(None))>>),
    List(<<JObject(JOffers(Float(245, 1)))>>),
    List(<<Raises, JObject(JOffers(JInt(20)))>>) }

Meta(content) == [t |-> "element", content |-> content]

SampleMeta ==
  {None, Raises, Meta(None), Meta(Str(T_29_95)), Meta(Str(T_free)), Meta(Raises)}

Element(evaluate, inner_text) == [evaluate |-> evaluate, inner_text |-> inner_text]

NoElements == [i \in 1..NumSelectors |-> List(<<>>)]

SampleSelectors ==
  { NoElements,
    [NoElements EXCEPT ![1] = Raises],
    [NoElements EXCEPT ![2] = List(<<Element(Str(T_39_00), Str(T_39_00))>>)],
    [NoElements EXCEPT ![2] = List(<<Element(Raises, Str(T_Now45))>>)],
    [NoElements EXCEPT ![3] = List(<<Element(Raises, Raises)>>)],
    [NoElements EXCEPT ![5] = List(<<Element(Raises, Str(T_CallUs))>>)],
    [NoElements EXCEPT ![4] = List(<<Element(Str(T_CallUs), Raises),
                                     Element(Str(T_Off), Str(T_Off)),
                                     Element(Str(T_1234), Str(T_1234))>>)] }

SampleBodies == {Raises, Str(T_NoPrice), Str(T_Body3), Str(T_BodyLow)}

MakePage(title, hs, ldjson, meta, selectors, body) ==
  [title |-> title, h1 |-> hs.h1, h2 |-> hs.h2, ldjson |-> ldjson,
   meta |-> meta, selectors |-> selectors, body |-> body]

SamplePages ==
  { MakePage(title, hs, ldjson, meta, selectors, body) :
      title \in SampleTitles, hs \in SampleHeadings, ldjson \in SampleLdJson,
      meta \in SampleMeta, selectors \in SampleSelectors, body \in SampleBodies }

\* ------------------------------------------------------------------------
\* find_retailer.py: search_duckduckgo, the cleaning of the result links
\* ------------------------------------------------------------------------
MAX_RESULTS == 15

W_uddg_eq == <<"u", "d", "d", "g", "=">>

W_uddg == <<"u", "d", "d", "g">>

W_https_colon == <<"h", "t", "t", "p", "s", ":">>

W_com_au == <<".", "c", "o", "m", ".", "a", "u">>

W_ebay == <<"e", "b", "a", "y">>

W_amazon == <<"a", "m", "a", "z", "o", "n">>

W_catch == <<"c", "a", "t", "c", "h">>

W_kogan == <<"k", "o", "g", "a", "n">>

W_Quantity == <<"Q", "u", "a", "n", "t", "i", "t", "y">>


ExcludedKeywords == {W_ebay, W_amazon, W_catch, W_kogan}

\* urllib.parse.unquote on the escapes the sample links use
UnquoteCode(a, b) ==
  CASE a = "3" /\ b \in {"A", "a"} -> ":"
    [] a = "2" /\ b \in {"F", "f"} -> "/"
    [] a = "3" /\ b \in {"F", "f"} -> "?"
    [] a = "3" /\ b \in {"D", "d"} -> "="
    [] a = "2" /\ b = "6"          -> "&"
    [] a = "2" /\ b = "5"          -> "%"
    [] a = "2" /\ b = "0"          -> " "
    [] OTHER                       -> ""

RECURSIVE Unquote(_)
Unquote(s) ==
  IF s = <<>> THEN <<>>
  ELSE IF s[1] = "%" /\ Len(s) >= 3 /\ UnquoteCode(s[2], s[3]) # ""
    THEN <<UnquoteCode(s[2], s[3])>> \o Unquote(SubSeq(s, 4, Len(s)))
  ELSE <<s[1]>> \o Unquote(Tail(s))

\* s.split(c)
RECURSIVE Split(_, _)
Split(s, c) ==
  LET i == Find(s, <<c>>)
  IN IF i = 0 THEN <<s>>
     ELSE <<SubSeq(s, 1, i - 1)>> \o Split(SubSeq(s, i + 1, Len(s)), c)

\* urllib.parse.urlparse(href).query: what follows the first "?" of the
\* part before the first "#"
UrlQuery(href) ==
  LET h    == Find(href, <<"#">>)
      base == IF h = 0 THEN href ELSE SubSeq(href, 1, h - 1)
      q    == Find(base, <<"?">>)
  IN IF q = 0 THEN <<>> ELSE SubSeq(base, q + 1, Len(base))

PlusToSpace(s) == [i \in 1..Len(s) |-> IF s[i] = "+" THEN " " ELSE s[i]]

\* urllib.parse.parse_qs(query)[key][0], None when the key is absent: the
\* fields are split at "&", a field without "=" or with an empty value is
\* dropped, names and values are unquoted
RECURSIVE FirstParam(_, _)
FirstParam(fields, key) ==
  IF fields = <<>> THEN None
  ELSE LET f  == Head(fields)
           eq == Find(f, <<"=">>)
       IN IF /\ eq # 0
             /\ eq < Len(f)
             /\ Unquote(PlusToSpace(SubSeq(f, 1, eq - 1))) = key
            THEN Str(Unquote(PlusToSpace(SubSeq(f, eq + 1, Len(f)))))
            ELSE FirstParam(Tail(fields), key)

parse_qs_first(query, key) == FirstParam(Split(query, "&"), key)

\* lines 171-190: the URL a result link stands for, None when the link is
\* passed over (no href, or a redirect without the uddg parameter)
RealUrl(link) ==
  IF link.t = "None" \/ link.s = <<>> THEN None
  ELSE LET href == IF StartsWith(link.s, <<"/", "/">>)
                     THEN W_https_colon \o link.s ELSE link.s
       IN IF Contains(href, W_uddg_eq)
            THEN LET target == parse_qs_first(UrlQuery(href), W_uddg)
                 IN IF target.t = "None" THEN None ELSE Str(Unquote(target.s))
            ELSE Str(href)

\* lines 193-197: the filter on AU retailer domains
IsAuRetailer(real_url) ==
  /\ Contains(real_url, W_com_au)
  /\ \A x \in ExcludedKeywords : ~Contains(Lower(real_url), x)

\* lines 170-201: the loop over the links, from link i on
RECURSIVE CleanLinks(_, _, _)
CleanLinks(links, i, clean_results) ==
  IF i > Len(links) THEN clean_results
  ELSE LET real_url == RealUrl(links[i])
       IN IF real_url.t = "None" THEN CleanLinks(links, i + 1, clean_results)
          ELSE LET kept == IF IsAuRetailer(real_url.s)
                             THEN Append(clean_results, real_url.s)
                             ELSE clean_results
               IN IF Len(kept) >= MAX_RESULTS THEN kept
                  ELSE CleanLinks(links, i + 1, kept)

U_Redirect == <<"/", "/", "d", ".", "g", "g", "/", "l", "/", "?", "u", "d", "d", "g", "=", "h", "t", "t", "p", "s", "%", "3", "A", "%", "2", "F", "%", "2", "F", "s", "h", "o", "p", ".", "c", "o", "m", ".", "a", "u", "%", "2", "F", "p", "&", "r", "u", "t", "=", "1">>

U_Direct == <<"h", "t", "t", "p", "s", ":", "/", "/", "t", "o", "y", "s", ".", "c", "o", "m", ".", "a", "u", "/", "i", "t", "e", "m">>

U_RedirectEbay == <<"/", "/", "d", ".", "g", "g", "/", "l", "/", "?", "u", "d", "d", "g", "=", "h", "t", "t", "p", "s", "%", "3", "A", "%", "2", "F", "%", "2", "F", "w", "w", "w", ".", "e", "B", "a", "y", ".", "c", "o", "m", ".", "a", "u", "%", "2", "F", "i", "t", "m">>

U_NoParam == <<"/", "/", "d", ".", "g", "g", "/", "l", "/", "?", "x", "u", "d", "d", "g", "=", "h", "t", "t", "p", "s", "%", "3", "A", "%", "2", "F", "%", "2", "F", "a", ".", "c", "o", "m", ".", "a", "u">>

U_PathOnly == <<"h", "t", "t", "p", "s", ":", "/", "/", "r", "e", "v", "i", "e", "w", "s", ".", "c", "o", "m", "/", "s", "h", "o", "p", ".", "c", "o", "m", ".", "a", "u">>

U_Foreign == <<"h", "t", "t", "p", "s", ":", "/", "/", "s", "h", "o", "p", ".", "c", "o", "m", "/", "p">>

U_ProtoRel == <<"/", "/", "d", "e", "a", "l", "s", ".", "c", "o", "m", ".", "a", "u", "/", "x">>

U_Kogan == <<"h", "t", "t", "p", "s", ":", "/", "/", "w", "w", "w", ".", "k", "o", "g", "a", "n", ".", "c", "o", "m", ".", "a", "u", "/", "b", "u", "y">>

T_ChgQuantity == <<"Q", "u", "a", "n", "t", "i", "t", "y">>

T_ChgPrice == <<"P", "r", "i", "c", "e">>

T_ChgLower == <<"q", "u", "a", "n", "t", "i", "t", "y", " ", "a", "v", "a", "i", "l", "a", "b", "l", "e">>

T_Widget == <<"W", "i", "d", "g", "e", "t">>

T_Price10 == <<"A", "U", " ", "$", "1", "0", ".", "0", "0">>


\* the href attributes of the sample result links
SampleLinks ==
  { None, Str(<<>>), Str(U_Redirect), Str(U_Direct), Str(U_RedirectEbay),
    Str(U_NoParam), Str(U_PathOnly), Str(U_Foreign), Str(U_ProtoRel), Str(U_Kogan) }

\* ------------------------------------------------------------------------
\* get_stores.py: dates, count_quantity_revisions
\* ------------------------------------------------------------------------
DAYS_LIMIT == 14

MIN_SALES == 3

MAX_ITEMS == 10

\* Instants are whole ticks; a parsed date is the midnight of its day.
TicksPerDay == 2

\* A date text is [t |-> "text", fmt |-> the layout it is written in, day |-> its day];
\* datetime.strptime(text, fmt) gives the day's midnight when the layouts
\* agree and raises ValueError (None here) when they do not.
DateText(fmt, day) == [t |-> "text", fmt |-> fmt, day |-> day]

strptime(text, fmt) ==
  IF text.fmt = fmt THEN [t |-> "datetime", tick |-> text.day * TicksPerDay] ELSE None

\* datetime.now() - timedelta(days=DAYS_LIMIT)
CutoffDate(now) == now - DAYS_LIMIT * TicksPerDay

\* A revision row is Raises (a query on it raises) or
\* [cells |-> the number of its td cells, date |-> the text of the first,
\*  change |-> the text of the third].
RevisionRow(cells, date, change) == [t |-> "row", cells |-> cells, date |-> date, change |-> change]

\* a comparison that also stops at a row dated exactly at the cutoff, which
\* C3_ReverseScan tells apart from line 70
IsOlderOrEqual(revision_date, cutoff_date) == revision_date.tick <= cutoff_date

\* line 70: the row is older than the cutoff
IsOlder(revision_date, cutoff_date) == revision_date.tick < cutoff_date

\* lines 55-76 from row i down to row 1 (reversed(rows)): the count, the
\* rows looked at in order, and whether an exception ended the scan
RECURSIVE ScanRevisions(_, _, _, _, _)
ScanRevisions(rows, i, cutoff_date, count, visited) ==
  IF i = 0 THEN [count |-> count, visited |-> visited, raised |-> FALSE]
  ELSE LET row  == rows[i]
           seen == Append(visited, i)
       IN IF IsRaise(row) THEN [count |-> count, visited |-> seen, raised |-> TRUE]
          ELSE IF row.cells < 3
            THEN ScanRevisions(rows, i - 1, cutoff_date, count, seen)
          ELSE LET revision_date == strptime(row.date, "%d %b, %Y")
               IN IF revision_date.t = "None"
                    THEN ScanRevisions(rows, i - 1, cutoff_date, count, seen)
                  ELSE IF IsOlder(revision_date, cutoff_date)
                    THEN [count |-> count, visited |-> seen, raised |-> FALSE]
                  ELSE ScanRevisions(rows, i - 1, cutoff_date,
                                     IF Contains(row.change, W_Quantity)
                                       THEN count + 1 ELSE count,
                                     seen)

\* A revision page is [goto |-> "ok" or the exception of rev_page.goto,
\* rows |-> the rows of its table].  wait_for_selector raises TimeoutError
\* when no row appears.  result is the returned count.
count_quantity_revisions(rev, cutoff_date) ==
  IF rev.goto # "ok" \/ rev.rows = <<>>
    THEN [result |-> 0, visited |-> <<>>, raised |-> TRUE]
  ELSE LET scan == ScanRevisions(rev.rows, Len(rev.rows), cutoff_date, 0, <<>>)
       IN [result |-> IF scan.raised THEN 0 ELSE scan.count,
           visited |-> scan.visited, raised |-> scan.raised]

\* ------------------------------------------------------------------------
\* get_stores.py: parse_sold_date, and the sample data of a store
\* ------------------------------------------------------------------------
\* "Sold 18 Feb 2026": the AU layout first, the US layout as the fallback,
\* None when neither fits
parse_sold_date(text) ==
  IF strptime(text, "%d %b %Y").t # "None" THEN strptime(text, "%d %b %Y")
  ELSE IF strptime(text, "%b %d, %Y").t # "None" THEN strptime(text, "%b %d, %Y")
  ELSE None

\* Bounds of the model
NowDay == 100

MaxRows == 3

MaxCards == 4

MaxPages == 3

MaxRepeat == 16

\* the instants at which a run may start: a midnight, and a later instant
\* of the same day
SampleNows == {NowDay * TicksPerDay, NowDay * TicksPerDay + 1}

SampleAges == {1, 3, DAYS_LIMIT, 20}

SampleRows ==
  { RevisionRow(3, DateText("%d %b, %Y", NowDay - age), change) :
      age \in SampleAges, change \in {T_ChgQuantity, T_ChgPrice} }
  \cup { RevisionRow(3, DateText("%d %b, %Y", NowDay - 1), T_ChgLower),
         RevisionRow(3, DateText("%b %d, %Y", NowDay - 1), T_ChgQuantity),
         RevisionRow(2, DateText("%d %b, %Y", NowDay - 1), T_ChgQuantity),
         Raises }

RevisionPage(goto, rows) == [goto |-> goto, rows |-> rows]

RECURSIVE SeqsUpTo(_, _)
SeqsUpTo(S, n) ==
  IF n = 0 THEN {<<>>}
  ELSE LET shorter == SeqsUpTo(S, n - 1)
       IN shorter \cup {Append(q, x) : q \in {r \in shorter : Len(r) = n - 1}, x \in S}

\* ------------------------------------------------------------------------
\* State
\* ------------------------------------------------------------------------
VARIABLES
  pc,              \* the statement the program is at
  error,           \* the exception that left the program uncaught, or "none"
  open,            \* the number of open pages of each kind
  now,             \* datetime.now() at the start of scrape_store
  page_number,     \* scrape_store: page_number
  listing,         \* scrape_store: the last listing page requested
  remaining,       \* scrape_store: listing cards not yet iterated
  card,            \* scrape_store: the card whose revisions are being counted
  sales_count,     \* scrape_store: sales_count, a dict in insertion order
  item_details,    \* scrape_store: item_details, a dict in insertion order
  qualified_count, \* scrape_store: qualified_count
  filtered,        \* run_pipeline: filtered
  csv,             \* the rows of <store>_results.csv, None before it is written
  fi,              \* run_pipeline: the place in filtered of the item at hand
  reports,         \* the <item_id>.json files written
  links,           \* search_duckduckgo: the href attributes of the result links
  clean_results,   \* search_duckduckgo: clean_results
  ui,              \* search_duckduckgo: the place in clean_results of the URL at hand
  retailer_data,   \* search_duckduckgo: retailer_data
  log,             \* search_duckduckgo: the lines printed for the visited URLs
  page,            \* extract_price_from_page: its argument
  extracted,       \* extract_price_from_page: its outcome
  rev,             \* count_quantity_revisions: the revision page
  counted          \* count_quantity_revisions: its outcome

vars ==
  <<pc, error, open, now, page_number, listing, remaining, card, sales_count,
    item_details, qualified_count, filtered, csv, fi, reports, links,
    clean_results, ui, retailer_data, log, page, extracted, rev, counted>>

scrape_vars ==
  <<now, page_number, listing, remaining, card, sales_count, item_details,
    qualified_count>>

pipeline_vars == <<filtered, csv, fi, reports>>

search_vars == <<links, clean_results, ui, retailer_data, log>>

unit_vars == <<page, extracted, rev, counted>>

NoPages == [listing |-> 0, revision |-> 0, search |-> 0, product |-> 0]

NoListing == [goto |-> "none", cards |-> 0]

NoCard == [item_id |-> "", title |-> Str(<<>>), price |-> Str(<<>>)]

NoExtract == [result |-> None, ran |-> <<>>]

NoCount == [result |-> 0, visited |-> <<>>, raised |-> FALSE]

\* the state before anything has run
Idle ==
  /\ error = "none"
  /\ open = NoPages
  /\ page_number = 0
  /\ listing = NoListing
  /\ remaining = 0
  /\ card = NoCard
  /\ sales_count = <<>>
  /\ item_details = <<>>
  /\ qualified_count = 0
  /\ filtered = <<>>
  /\ csv = None
  /\ fi = 0
  /\ reports = {}
  /\ clean_results = <<>>
  /\ ui = 0
  /\ retailer_data = <<>>
  /\ log = <<>>
  /\ extracted = NoExtract
  /\ counted = NoCount

\* ------------------------------------------------------------------------
\* extract_price_from_page on its own
\* ------------------------------------------------------------------------
InitExtract ==
  /\ Idle
  /\ pc = "extract_call"
  /\ page \in SamplePages
  /\ now = NowDay * TicksPerDay
  /\ links = <<>>
  /\ rev = RevisionPage("ok", <<>>)

ExtractPrice ==
  /\ pc = "extract_call"
  /\ extracted' = extract_price_from_page(page)
  /\ pc' = "extract_done"
  /\ UNCHANGED <<error, open, scrape_vars, pipeline_vars, search_vars, page, rev, counted>>

SpecExtract == InitExtract /\ [][ExtractPrice]_vars

\* ------------------------------------------------------------------------
\* the cleaning of the result links on its own
\* ------------------------------------------------------------------------
Repeat(x, n) == [i \in 1..n |-> x]

\* the result lists: up to one link, a run of one link, up to one link
SampleResultLists ==
  { a \o Repeat(h, n) \o b :
      a \in SeqsUpTo(SampleLinks, 1), h \in SampleLinks, n \in 0..MaxRepeat,
      b \in SeqsUpTo(SampleLinks, 1) }

InitHarvest ==
  /\ Idle
  /\ pc = "harvest_call"
  /\ links \in SampleResultLists
  /\ now = NowDay * TicksPerDay
  /\ page = CHOOSE p \in SamplePages : TRUE
  /\ rev = RevisionPage("ok", <<>>)

Harvest ==
  /\ pc = "harvest_call"
  /\ clean_results' = CleanLinks(links, 1, <<>>)
  /\ pc' = "harvest_done"
  /\ UNCHANGED <<error, open, scrape_vars, pipeline_vars, links, ui, retailer_data, log, unit_vars>>

SpecHarvest == InitHarvest /\ [][Harvest]_vars

\* ------------------------------------------------------------------------
\* count_quantity_revisions on its own
\* ------------------------------------------------------------------------
InitRevisions ==
  /\ Idle
  /\ pc = "count_call"
  /\ now \in SampleNows
  /\ rev \in {RevisionPage(goto, rows) :
                goto \in {"ok", "timeout"}, rows \in SeqsUpTo(SampleRows, MaxRows)}
  /\ links = <<>>
  /\ page = CHOOSE p \in SamplePages : TRUE

CountRevisions ==
  /\ pc = "count_call"
  /\ counted' = count_quantity_revisions(rev, CutoffDate(now))
  /\ pc' = "count_done"
  /\ UNCHANGED <<error, open, scrape_vars, pipeline_vars, search_vars, page, extracted, rev>>

SpecRevisions == InitRevisions /\ [][CountRevisions]_vars

\* ------------------------------------------------------------------------
\* run_pipeline: scrape_store, the filter, search_duckduckgo for each item
\* ------------------------------------------------------------------------
\* A Python dict in insertion order: a sequence of [k |-> key, v |-> value].
DictHas(d, k) == \E i \in 1..Len(d) : d[i].k = k

DictSet(d, k, v) ==
  IF DictHas(d, k)
    THEN [i \in 1..Len(d) |-> IF d[i].k = k THEN [k |-> k, v |-> v] ELSE d[i]]
    ELSE Append(d, [k |-> k, v |-> v])

DictGet(d, k) == d[CHOOSE i \in 1..Len(d) : d[i].k = k].v

\* A listing card: item_id is its data-listingid attribute ("" when it has
\* none), sold_span the text of its "Sold item" span (None without the span),
\* title_elem and price_elem the texts of the two elements (None when missing)
Card(item_id, sold_span, title_elem, price_elem) ==
  [item_id |-> item_id, sold_span |-> sold_span,
   title_elem |-> title_elem, price_elem |-> price_elem]

\* the cards of the store's feed
SampleCards ==
  { Card("110", DateText("%d %b %Y", NowDay - 1), Str(T_Widget), Str(T_Price10)),
    Card("220", DateText("%d %b %Y", NowDay - 1), Str(T_Widget), Str(T_Price10)),
    Card("220", DateText("%b %d, %Y", NowDay - 3), None, None),
    Card("110", DateText("%d %b %Y", NowDay - DAYS_LIMIT), Str(T_Widget), Str(T_Price10)),
    Card("", DateText("%d %b %Y", NowDay - 1), Str(T_Widget), Str(T_Price10)),
    Card("110", None, Str(T_Widget), Str(T_Price10)),
    Card("110", DateText("unknown", NowDay - 1), Str(T_Widget), Str(T_Price10)),
    Card("110", DateText("%d %b %Y", NowDay - 20), Str(T_Widget), Str(T_Price10)) }

QuantityRow(age) == RevisionRow(3, DateText("%d %b, %Y", NowDay - age), T_ChgQuantity)

PriceRow(age) == RevisionRow(3, DateText("%d %b, %Y", NowDay - age), T_ChgPrice)

\* the revision pages of the store's items
SampleRevisionPages ==
  { RevisionPage("timeout", <<>>),
    RevisionPage("ok", <<>>),
    RevisionPage("ok", <<QuantityRow(5), QuantityRow(3), QuantityRow(1)>>),
    RevisionPage("ok", <<QuantityRow(20), PriceRow(3), QuantityRow(1)>>) }

\* the result links of the searches
SampleSearches ==
  { <<>>,
    <<Str(U_Foreign)>>,
    <<Str(U_Redirect), Str(U_Kogan), Str(U_ProtoRel)>> }

BarePage ==
  MakePage(Str(T_Shop), [h1 |-> List(<<>>), h2 |-> List(<<>>)], List(<<>>), None,
           NoElements, Str(T_NoPrice))

\* the retailer pages: one with a price, the same behind an access-denied
\* title, one without a price, one whose script query raises
SampleRetailerPages ==
  { [BarePage EXCEPT !.ldjson = List(<<JObject(JOffers(Str(T_19_99)))>>)],
    [BarePage EXCEPT !.ldjson = List(<<JObject(JOffers(Str(T_19_99)))>>),
                     !.title = Str(T_AccessDenied)],
    BarePage,
    [BarePage EXCEPT !.ldjson = Raises] }

W_price_not_found == <<"p", "r", "i", "c", "e", " ", "n", "o", "t", " ", "f", "o", "u", "n", "d">>


\* a close() that leaves the page open, which C7_PageDiscipline tells apart
\* from the close() of the finally blocks
ClosePageLeaking(pages, kind) == pages

\* page.close(), product_page.close(), rev_page.close()
ClosePage(pages, kind) == [pages EXCEPT ![kind] = pages[kind] - 1]

\* context.new_page()
NewPage(pages, kind) == [pages EXCEPT ![kind] = pages[kind] + 1]

\* an exception leaves the program: the playwright context manager shuts
\* the browser down on the way out
Crash(exc) ==
  /\ pc' = "crashed"
  /\ error' = exc
  /\ open' = NoPages

InitPipeline ==
  /\ Idle
  /\ pc = "start"
  /\ now \in SampleNows
  /\ links = <<>>
  /\ page = BarePage
  /\ rev = RevisionPage("ok", <<>>)

\* scrape_store, lines 90-102
Launch ==
  /\ pc = "start"
  /\ open' = NewPage(open, "listing")
  /\ page_number' = 1
  /\ pc' = "ss_load"
  /\ UNCHANGED <<error, now, listing, remaining, card, sales_count, item_details,
                 qualified_count, pipeline_vars, search_vars, unit_vars>>

\* scrape_store, lines 104-117: one turn of the while loop up to the for
\* loop.  wait_for_selector raises TimeoutError when no card appears; past
\* the last page of the feed there is none.
LoadListings ==
  /\ pc = "ss_load"
  /\ \E goto \in {"ok", "timeout"}, n \in 0..MaxCards :
       /\ page_number > MaxPages => n = 0
       /\ listing' = [goto |-> goto, cards |-> n]
       /\ IF goto = "timeout" \/ n = 0
            THEN Crash("TimeoutError") /\ UNCHANGED remaining
            ELSE /\ remaining' = n
                 /\ pc' = "ss_card"
                 /\ UNCHANGED <<error, open>>
  /\ UNCHANGED <<now, page_number, card, sales_count, item_details, qualified_count,
                 pipeline_vars, search_vars, unit_vars>>

\* lines 162-164 after a break with stop_scraping set: the loop ends, the
\* browser is closed, scrape_store returns
StopScraping ==
  /\ page_number' = page_number + 1
  /\ open' = NoPages
  /\ pc' = "ss_return"

\* scrape_store, lines 119-140, and count_quantity_revisions, lines 35-36:
\* the next card, up to the opening of its revision page
ReadCard ==
  /\ pc = "ss_card"
  /\ remaining > 0
  /\ \E c \in SampleCards :
       IF c.item_id = "" \/ c.sold_span.t = "None"
         THEN /\ remaining' = remaining - 1
              /\ UNCHANGED <<pc, error, open, page_number, card>>
       ELSE IF parse_sold_date(c.sold_span).t = "None"
         THEN Crash("TypeError") /\ UNCHANGED <<remaining, page_number, card>>
       ELSE IF parse_sold_date(c.sold_span).tick < CutoffDate(now)
         THEN StopScraping /\ UNCHANGED <<error, remaining, card>>
       ELSE /\ card' = [item_id |-> c.item_id,
                        title |-> IF c.title_elem.t = "None" THEN Str(<<>>)
                                  ELSE Str(Strip(c.title_elem.s)),
                        price |-> IF c.price_elem.t = "None" THEN Str(<<>>)
                                  ELSE Str(Strip(c.price_elem.s))]
            /\ open' = NewPage(open, "revision")
            /\ pc' = "ss_rev"
            /\ UNCHANGED <<error, remaining, page_number>>
  /\ UNCHANGED <<now, listing, sales_count, item_details, qualified_count,
                 pipeline_vars, search_vars, unit_vars>>

\* count_quantity_revisions, lines 38-85, and scrape_store, lines 146-160
CountCard ==
  /\ pc = "ss_rev"
  /\ \E r \in SampleRevisionPages :
       LET quantity_count == count_quantity_revisions(r, CutoffDate(now)).result
           closed         == ClosePage(open, "revision")
           qualified      == IF quantity_count >= MIN_SALES
                               THEN qualified_count + 1 ELSE qualified_count
       IN /\ sales_count' = DictSet(sales_count, card.item_id, quantity_count)
          /\ item_details' = DictSet(item_details, card.item_id,
                                     [title |-> card.title, price |-> card.price])
          /\ qualified_count' = qualified
          /\ IF quantity_count >= MIN_SALES /\ qualified >= MAX_ITEMS
               THEN /\ StopScraping
                    /\ UNCHANGED remaining
               ELSE /\ open' = closed
                    /\ remaining' = remaining - 1
                    /\ pc' = "ss_card"
                    /\ UNCHANGED page_number
  /\ UNCHANGED <<error, now, listing, card, pipeline_vars, search_vars, unit_vars>>

\* scrape_store, line 162: the for loop is over
NextPage ==
  /\ pc = "ss_card"
  /\ remaining = 0
  /\ page_number' = page_number + 1
  /\ pc' = "ss_load"
  /\ UNCHANGED <<error, open, now, listing, remaining, card, sales_count,
                 item_details, qualified_count, pipeline_vars, search_vars, unit_vars>>

\* run_pipeline, lines 18-22
Filtered(counts, details) ==
  SelectSeq([i \in 1..Len(counts) |->
               [item_id |-> counts[i].k, count |-> counts[i].v,
                details |-> DictGet(details, counts[i].k)]],
            LAMBDA e : e.count >= MIN_SALES)

\* run_pipeline, lines 15-35: scrape_store has returned; the filter, the CSV
\* file, and the early return when nothing passed.  The locals of
\* scrape_store are gone, and the two dicts are not read again.
Filter ==
  /\ pc = "ss_return"
  /\ filtered' = Filtered(sales_count, item_details)
  /\ csv' = List(filtered')
  /\ fi' = 1
  /\ pc' = IF filtered' = <<>> THEN "done" ELSE "rp_item"
  /\ page_number' = 0
  /\ listing' = NoListing
  /\ remaining' = 0
  /\ card' = NoCard
  /\ qualified_count' = 0
  /\ sales_count' = <<>>
  /\ item_details' = <<>>
  /\ UNCHANGED <<error, open, now, reports, search_vars, unit_vars>>

\* a visit that records a "price not found" offer when it times out or
\* fails, which C1_OfferPerCompletedVisit tells apart from lines 218-230
VisitOutcomeRecording(url, nav, price) ==
  IF nav = "timeout" \/ nav = "error" \/ IsRaise(price)
    THEN [line |-> IF nav = "timeout" THEN "timed out" ELSE "failed", price |-> None,
          offers |-> <<[url |-> url, price |-> Str(W_price_not_found)]>>]
  ELSE IF price.t = "None" \/ price.s = <<>>
    THEN [line |-> "price not found", price |-> None,
          offers |-> <<[url |-> url, price |-> Str(W_price_not_found)]>>]
  ELSE [line |-> "price found", price |-> price,
        offers |-> <<[url |-> url, price |-> price]>>]

\* search_duckduckgo, lines 218-230: what one visit prints and appends.
\* nav is the outcome of product_page.goto, price what
\* extract_price_from_page gave (a str, None, or Raises).  line is the line
\* printed for the URL, offers what is appended to retailer_data.
VisitOutcome(url, nav, price) ==
  IF nav = "timeout" THEN [line |-> "timed out", price |-> None, offers |-> <<>>]
  ELSE IF nav = "error" \/ IsRaise(price)
    THEN [line |-> "failed", price |-> None, offers |-> <<>>]
  ELSE IF price.t = "None" \/ price.s = <<>>
    THEN [line |-> "price not found", price |-> None,
          offers |-> <<[url |-> url, price |-> Str(W_price_not_found)]>>]
  ELSE [line |-> "price found", price |-> price,
        offers |-> <<[url |-> url, price |-> price]>>]

\* search_duckduckgo, lines 210-230: the visit of one URL, p the page that
\* product_page.goto loads
VisitPage(url, nav, p) ==
  VisitOutcome(url, nav, IF nav = "ok" THEN extract_price_from_page(p).result ELSE None)

\* run_pipeline, lines 46-50, and search_duckduckgo, lines 131-155
OpenSearch ==
  /\ pc = "rp_item"
  /\ fi <= Len(filtered)
  /\ open' = NewPage(open, "search")
  /\ links' = <<>>
  /\ clean_results' = <<>>
  /\ ui' = 0
  /\ retailer_data' = <<>>
  /\ log' = <<>>
  /\ pc' = "sd_search"
  /\ UNCHANGED <<error, scrape_vars, pipeline_vars, unit_vars>>

\* search_duckduckgo, lines 158-203: the search page and the cleaning of
\* its links.  wait_for_selector raises TimeoutError when no result link
\* appears.
Search ==
  /\ pc = "sd_search"
  /\ \E goto \in {"ok", "timeout"}, ls \in SampleSearches :
       IF goto = "timeout" \/ ls = <<>>
         THEN Crash("TimeoutError") /\ UNCHANGED <<links, clean_results, ui>>
         ELSE /\ links' = ls
              /\ clean_results' = CleanLinks(ls, 1, <<>>)
              /\ ui' = 1
              /\ pc' = "sd_visit"
              /\ UNCHANGED <<error, open>>
  /\ UNCHANGED <<scrape_vars, pipeline_vars, retailer_data, log, unit_vars>>

\* search_duckduckgo, lines 208-209
OpenProduct ==
  /\ pc = "sd_visit"
  /\ ui <= Len(clean_results)
  /\ open' = NewPage(open, "product")
  /\ pc' = "sd_page"
  /\ UNCHANGED <<error, scrape_vars, pipeline_vars, search_vars, unit_vars>>

\* search_duckduckgo, lines 210-232
Visit ==
  /\ pc = "sd_page"
  /\ \E nav \in {"ok", "timeout", "error"}, p \in SampleRetailerPages :
       \E visit \in {VisitPage(clean_results[ui], nav, p)} :
          /\ retailer_data' = retailer_data \o visit.offers
          /\ log' = Append(log, [url |-> clean_results[ui], line |-> visit.line,
                                 price |-> visit.price])
  /\ open' = ClosePage(open, "product")
  /\ ui' = ui + 1
  /\ pc' = "sd_visit"
  /\ UNCHANGED <<error, scrape_vars, pipeline_vars, links, clean_results, unit_vars>>

\* search_duckduckgo, lines 234-236
ReturnSearch ==
  /\ pc = "sd_visit"
  /\ ui > Len(clean_results)
  /\ open' = NoPages
  /\ pc' = "sd_return"
  /\ UNCHANGED <<error, scrape_vars, pipeline_vars, search_vars, unit_vars>>

\* run_pipeline, lines 52-64: the item's JSON file
Persist ==
  /\ pc = "sd_return"
  /\ reports' = reports \cup
       {[itemID |-> filtered[fi].item_id,
         title |-> filtered[fi].details.title,
         ebay_price |-> filtered[fi].details.price,
         quantitysold |-> filtered[fi].count,
         retailers |-> retailer_data]}
  /\ fi' = fi + 1
  /\ links' = <<>>
  /\ clean_results' = <<>>
  /\ ui' = 0
  /\ retailer_data' = <<>>
  /\ log' = <<>>
  /\ pc' = "rp_item"
  /\ UNCHANGED <<error, open, scrape_vars, filtered, csv, unit_vars>>

\* run_pipeline, lines 66-68
Finish ==
  /\ pc = "rp_item"
  /\ fi > Len(filtered)
  /\ pc' = "done"
  /\ UNCHANGED <<error, open, scrape_vars, pipeline_vars, search_vars, unit_vars>>

Next ==
  \/ Launch
  \/ LoadListings
  \/ ReadCard
  \/ CountCard
  \/ NextPage
  \/ Filter
  \/ OpenSearch
  \/ Search
  \/ OpenProduct
  \/ Visit
  \/ ReturnSearch
  \/ Persist
  \/ Finish

Spec == InitPipeline /\ [][Next]_vars

\* ------------------------------------------------------------------------
\* Claims on extract_price_from_page (SpecExtract)
\* ------------------------------------------------------------------------
Last(q) == q[Len(q)]

\* the page's first structured-data script that holds a valid offers.price
C5_StructuredPrice(p) ==
  IF IsRaise(p.ldjson) THEN None ELSE FirstScriptPrice(p.ldjson.v)

\* C5: the strategies run strictly in the order structured data, meta tag,
\* selector scan, full-text fallback; a returned price is the result of the
\* last strategy run and every strategy before it missed; and on a page that
\* is not blocked and exposes a valid structured-data price, that price is
\* returned after the structured-data strategy alone, whatever the price
\* selectors of the page hold.
C5_CascadeOrder ==
  pc = "extract_done" =>
    /\ \E n \in 0..4 :
         extracted.ran = SubSeq(<<"structured", "meta", "selector", "fulltext">>, 1, n)
    /\ extracted.result.t = "str" =>
         /\ extracted.ran # <<>>
         /\ RunStrategy(Last(extracted.ran), page) = extracted.result
         /\ \A i \in 1..(Len(extracted.ran) - 1) :
              RunStrategy(extracted.ran[i], page).t = "None"
    /\ (~is_access_denied(page) /\ C5_StructuredPrice(page).t = "str") =>
         extracted = [result |-> C5_StructuredPrice(page), ran |-> <<"structured">>]

\* C5's case: a page with the structured-data price 19.99 and the selector
\* price $39.00, from which 19.99 was returned
C5_Witness ==
  /\ pc = "extract_done"
  /\ C5_StructuredPrice(page) = Str(T_19_99)
  /\ SelectorStrategy(page) = Str(<<"3", "9", ".", "0", "0">>)
  /\ extracted.result = Str(T_19_99)

C6_TitleWords == {W_access_denied, W_403, W_blocked, W_captcha, W_just_a_moment}

C6_HeadingWords == {W_access_denied, W_403, W_blocked}

\* the heading texts in the order they are read: the h1 elements, then the
\* h2 elements
C6_Headings(p) ==
  IF IsRaise(p.h1) THEN <<>>
  ELSE p.h1.v \o (IF IsRaise(p.h2) THEN <<>> ELSE p.h2.v)

C6_TitleHas(p, words) ==
  ~IsRaise(p.title) /\ \E x \in words : Contains(Lower(p.title.s), x)

\* a heading holds one of the words, and every heading read before it was read
C6_HeadingHas(p, words) ==
  \E i \in 1..Len(C6_Headings(p)) :
    /\ \A j \in 1..i : ~IsRaise(C6_Headings(p)[j])
    /\ \E x \in words : Contains(Lower(C6_Headings(p)[i].s), x)

C6_AllRead(p) ==
  /\ ~IsRaise(p.title) /\ ~IsRaise(p.h1) /\ ~IsRaise(p.h2)
  /\ \A i \in 1..Len(C6_Headings(p)) : ~IsRaise(C6_Headings(p)[i])

C6_Skipped == extracted = [result |-> None, ran |-> <<>>]

\* C6 as stated, on the pages whose title and headings are all read without
\* an error: if the title or a heading holds any of the five blocklist words,
\* is_access_denied is true and no price is returned and no strategy is run.
C6_Original ==
  (pc = "extract_done" /\ C6_AllRead(page)
     /\ (C6_TitleHas(page, C6_TitleWords) \/ C6_HeadingHas(page, C6_TitleWords))) =>
    is_access_denied(page) /\ C6_Skipped

\* C6 amended: if the title holds any of the five blocklist words, or the
\* title is read and an h1 or h2 heading, with every heading before it read,
\* holds "access denied", "403" or "blocked", then is_access_denied is true,
\* no price is returned and no strategy is run.
C6_BlockedSkips ==
  (pc = "extract_done"
     /\ (C6_TitleHas(page, C6_TitleWords)
           \/ (~IsRaise(page.title) /\ C6_HeadingHas(page, C6_HeadingWords)))) =>
    is_access_denied(page) /\ C6_Skipped

\* C6's case: a heading "Error 403" under a clean title, on a page with
\* price markup, and nothing extracted
C6_Witness ==
  /\ pc = "extract_done"
  /\ page.title = Str(T_Shop)
  /\ C6_HeadingHas(page, {W_403})
  /\ C5_StructuredPrice(page).t = "str"
  /\ C6_Skipped

\* C8 as stated: no exception leaves extract_price_from_page.
C8_Original == pc = "extract_done" => ~IsRaise(extracted.result)

C8_ElementFails(p) ==
  \E i \in 1..NumSelectors :
    \/ IsRaise(p.selectors[i])
    \/ \E e \in 1..Len(p.selectors[i].v) :
         IsRaise(p.selectors[i].v[e].evaluate) /\ IsRaise(p.selectors[i].v[e].inner_text)

\* C8 amended: an error while one structured-data script is read or decoded
\* is a miss for that script, an evaluate() error falls back to inner_text(),
\* and any error of the full-text fallback is a miss, after which the
\* remaining strategies are tried; the function raises only from the query
\* for the structured-data scripts, the meta query or its attribute read, a
\* selector query, or an element whose evaluate() and inner_text() both
\* raise, and then no later strategy is run; a failed script query on a page
\* that is not blocked always raises; when nothing hits or raises the result
\* is None after all four strategies.
C8_ErrorPaths ==
  pc = "extract_done" =>
    /\ IsRaise(extracted.result) =>
         /\ extracted.ran # <<>>
         /\ Last(extracted.ran) = "structured" => IsRaise(page.ldjson)
         /\ Last(extracted.ran) = "meta" =>
              (IsRaise(page.meta) \/ IsRaise(page.meta.content))
         /\ Last(extracted.ran) = "selector" => C8_ElementFails(page)
         /\ Last(extracted.ran) # "fulltext"
    /\ (~is_access_denied(page) /\ IsRaise(page.ldjson)) => IsRaise(extracted.result)
    /\ (extracted.result.t = "None" /\ ~is_access_denied(page)) =>
         extracted.ran = <<"structured", "meta", "selector", "fulltext">>

\* C8's case: a script that cannot be decoded, an element whose evaluate()
\* raises and a body that cannot be read, and the function returned None
\* after trying all four strategies
C8_Witness ==
  /\ pc = "extract_done"
  /\ ~IsRaise(page.ldjson) /\ \E i \in 1..Len(page.ldjson.v) : page.ldjson.v[i] = JInvalid
  /\ \E i \in 1..NumSelectors :
       ~IsRaise(page.selectors[i]) /\ \E e \in 1..Len(page.selectors[i].v) :
         IsRaise(page.selectors[i].v[e].evaluate)
  /\ IsRaise(page.body)
  /\ extracted = [result |-> None, ran |-> <<"structured", "meta", "selector", "fulltext">>]

\* ------------------------------------------------------------------------
\* Claims on count_quantity_revisions (SpecRevisions)
\* ------------------------------------------------------------------------
\* the row has a date the scan can read
C3_Dated(row) == ~IsRaise(row) /\ row.cells >= 3 /\ row.date.fmt = "%d %b, %Y"

C3_DatedRows(rows) == {i \in 1..Len(rows) : C3_Dated(rows[i])}

C3_StaleRows(rows, cutoff) ==
  {i \in C3_DatedRows(rows) : rows[i].date.day * TicksPerDay < cutoff}

\* the rows dated at or after the cutoff whose change type holds "Quantity"
C3_QuantityInWindow(rows, cutoff) ==
  Cardinality({i \in C3_DatedRows(rows) \ C3_StaleRows(rows, cutoff) :
                 Contains(rows[i].change, W_Quantity)})

C3_NewestFirst(rows) ==
  \A i, j \in C3_DatedRows(rows) : i < j => rows[i].date.day >= rows[j].date.day

C3_OldestFirst(rows) ==
  \A i, j \in C3_DatedRows(rows) : i < j => rows[i].date.day <= rows[j].date.day

\* the revision page loaded and every row of it could be read
C3_Read ==
  /\ pc = "count_done"
  /\ rev.goto = "ok"
  /\ rev.rows # <<>>
  /\ \A i \in 1..Len(rev.rows) : ~IsRaise(rev.rows[i])

Max(S) == CHOOSE x \in S : \A y \in S : y <= x

Min(S) == CHOOSE x \in S : \A y \in S : x <= y

\* the rows from the last delivered down to row m
DownTo(n, m) == [i \in 1..(n - m + 1) |-> n + 1 - i]

\* C3 as stated, on the histories whose rows all carry a date the scan can
\* read: for a history delivered newest-first, the count is the number of
\* "Quantity" rows dated at or after the cutoff, and no row older than the
\* first stale row is looked at.
C3_Original ==
  (C3_Read /\ C3_NewestFirst(rev.rows)
     /\ C3_DatedRows(rev.rows) = 1..Len(rev.rows)) =>
    LET stale == C3_StaleRows(rev.rows, CutoffDate(now))
    IN /\ counted.result = C3_QuantityInWindow(rev.rows, CutoffDate(now))
       /\ stale # {} =>
            \A i \in 1..Len(counted.visited) :
              rev.rows[counted.visited[i]].date.day >= rev.rows[Min(stale)].date.day

\* C3 amended: the rows are visited in the reverse of the delivery order, so
\* most-recent-first for a history delivered oldest-first, and for such a
\* history the count is the number of "Quantity" rows dated at or after the
\* cutoff, the scan stops at the first stale row it meets (the last stale
\* row delivered) and no row delivered before that row is looked at.
C3_ReverseScan ==
  (C3_Read /\ C3_OldestFirst(rev.rows)) =>
    LET stale == C3_StaleRows(rev.rows, CutoffDate(now))
    IN /\ counted.result = C3_QuantityInWindow(rev.rows, CutoffDate(now))
       /\ ~counted.raised
       /\ counted.visited =
            DownTo(Len(rev.rows), IF stale = {} THEN 1 ELSE Max(stale))

\* C3's case: the rows dated 20, 3 and 1 days back, delivered oldest-first:
\* the two recent rows are counted and the scan stops at the row 20 days back
C3_Witness ==
  /\ C3_Read
  /\ Len(rev.rows) = 3
  /\ \A i \in 1..3 : C3_Dated(rev.rows[i]) /\ rev.rows[i].change = T_ChgQuantity
  /\ rev.rows[1].date.day = NowDay - 20
  /\ rev.rows[2].date.day = NowDay - 3
  /\ rev.rows[3].date.day = NowDay - 1
  /\ counted = [result |-> 2, visited |-> <<3, 2, 1>>, raised |-> FALSE]

\* ------------------------------------------------------------------------
\* Claims on the cleaning of the result links (SpecHarvest)
\* ------------------------------------------------------------------------
W_scheme_sep == <<":", "/", "/">>

\* the host of an absolute URL: what follows "://" up to the next "/", "?"
\* or "#"
C9_Host(url) ==
  LET a    == Find(url, W_scheme_sep)
      rest == IF a = 0 THEN url ELSE SubSeq(url, a + 3, Len(url))
      ends == {i \in 1..Len(rest) : rest[i] \in {"/", "?", "#"}}
  IN IF ends = {} THEN rest ELSE SubSeq(rest, 1, Min(ends) - 1)

C9_Passes(url) ==
  /\ Contains(C9_Host(url), W_com_au)
  /\ \A x \in {W_ebay, W_amazon, W_catch, W_kogan} : ~Contains(Lower(url), x)

\* the normalized URLs of the links that pass the filter, in result order
RECURSIVE C9_Passing(_)
C9_Passing(ls) ==
  IF ls = <<>> THEN <<>>
  ELSE LET u == RealUrl(Head(ls))
       IN (IF u.t = "str" /\ C9_Passes(u.s) THEN <<u.s>> ELSE <<>>)
            \o C9_Passing(Tail(ls))

FirstN(q, n) == SubSeq(q, 1, IF Len(q) < n THEN Len(q) ELSE n)

\* C9: the harvested list is the first MAX_RESULTS, in result order, of the
\* normalized links whose host contains ".com.au" and that hold none of the
\* excluded keywords, and it never holds more than MAX_RESULTS URLs.
C9_HarvestByHost ==
  pc = "harvest_done" =>
    /\ clean_results = FirstN(C9_Passing(links), MAX_RESULTS)
    /\ Len(clean_results) <= MAX_RESULTS

\* ------------------------------------------------------------------------
\* Claims on the run of the pipeline (Spec)
\* ------------------------------------------------------------------------
C1_Visited == {"price found", "price not found"}

C1_Skipped == {"timed out", "failed"}

\* the offers of the visits that ran to their end, in the order of the visits
RECURSIVE C1_Offers(_)
C1_Offers(lines) ==
  IF lines = <<>> THEN <<>>
  ELSE LET e == Head(lines)
       IN (IF e.line = "price found" THEN <<[url |-> e.url, price |-> e.price]>>
           ELSE IF e.line = "price not found"
             THEN <<[url |-> e.url, price |-> Str(W_price_not_found)]>>
           ELSE <<>>)
            \o C1_Offers(Tail(lines))

C1_InSearch == pc \in {"sd_visit", "sd_page", "sd_return"}

\* C1 as stated: search_duckduckgo returns one offer per harvested URL, in
\* harvest order, and the offer of a URL whose visit timed out or failed
\* carries the "not found" marker.
C1_Original ==
  pc = "sd_return" =>
    /\ Len(retailer_data) = Len(clean_results)
    /\ \A i \in 1..Len(clean_results) :
         /\ retailer_data[i].url = clean_results[i]
         /\ log[i].line \in C1_Skipped => retailer_data[i].price = Str(W_price_not_found)

\* C1 amended: the harvested URLs are attempted one by one in harvest order
\* and all of them have been attempted when search_duckduckgo returns; the
\* returned list holds, in that order, one offer for each URL whose page
\* loaded and whose extraction returned, with the extracted price or the
\* "price not found" marker, and no offer for a URL whose navigation timed
\* out or whose visit raised any other error: that URL is skipped, so the
\* list is at most as long as the list of attempted URLs.
C1_OfferPerCompletedVisit ==
  C1_InSearch =>
    /\ Len(log) = (IF pc = "sd_return" THEN Len(clean_results) ELSE ui - 1)
    /\ \A i \in 1..Len(log) : log[i].url = clean_results[i]
    /\ retailer_data = C1_Offers(log)
    /\ Len(retailer_data) =
         Cardinality({i \in 1..Len(log) : log[i].line \in C1_Visited})

\* C1's case: a search has returned after one URL timed out and another
\* gave a price, with fewer offers than attempted URLs
C1_Witness ==
  /\ pc = "sd_return"
  /\ \E i \in 1..Len(log) : log[i].line = "timed out"
  /\ \E i \in 1..Len(log) : log[i].line = "price found"
  /\ Len(retailer_data) < Len(clean_results)

\* C2: once the browser is open no failure aborts the run: no exception
\* leaves run_pipeline, and when it is over one report has been written for
\* every item that passed the filter.
C2_NoAbort ==
  /\ pc # "crashed"
  /\ error = "none"
  /\ pc = "done" =>
       \A i \in 1..Len(filtered) :
         \E r \in reports : r.itemID = filtered[i].item_id

\* C4: scrape_store returns normally (a) as soon as qualified_count reaches
\* MAX_ITEMS, with no further card or page fetched, and (b) when a listing
\* page that loaded holds no listing card.
C4_Terminates ==
  /\ qualified_count >= MAX_ITEMS => pc = "ss_return"
  /\ (listing.goto = "ok" /\ listing.cards = 0) => pc = "ss_return"

C7_Total == open.listing + open.revision + open.search + open.product

\* C7 as stated: in every state of a run at most one page is open.
C7_Original == C7_Total <= 1

\* C7 amended: at most one revision page or product page is open at a time,
\* it is open only during the step that opened it and is closed on every
\* exit of that step before the next one is opened; the listing page of
\* scrape_store and the search page of search_duckduckgo stay open beside
\* it until the browser is closed, so up to two pages are open at once and
\* never more; no page is open once scrape_store or search_duckduckgo has
\* returned or an exception has left the program.
C7_PageDiscipline ==
  /\ open.revision + open.product <= 1
  /\ open.listing + open.search <= 1
  /\ C7_Total <= 2
  /\ open.revision = 1 <=> pc = "ss_rev"
  /\ open.product = 1 <=> pc = "sd_page"
  /\ open.listing = 1 <=> pc \in {"ss_load", "ss_card", "ss_rev"}
  /\ open.search = 1 <=> pc \in {"sd_search", "sd_visit", "sd_page"}

\* C7's case: a second product page is being visited, the first one having
\* been closed after a timeout, while the search page is still open
C7_Witness ==
  /\ pc = "sd_page"
  /\ ui = 2
  /\ log[1].line = "timed out"
  /\ open = [listing |-> 0, revision |-> 0, search |-> 1, product |-> 1]

C10_InScrape == pc \in {"ss_load", "ss_card", "ss_rev", "ss_return"}

\* the item ids recorded in sales_count with a count of MIN_SALES or more
C10_Qualifying(counts) == {counts[i].k : i \in {j \in 1..Len(counts) : counts[j].v >= MIN_SALES}}

\* C10: in every state of scrape_store, qualified_count is the number of
\* distinct item ids in sales_count whose count is at least MIN_SALES, and
\* it never exceeds MAX_ITEMS; when the scan stopped because the counter
\* reached MAX_ITEMS the mapping holds exactly MAX_ITEMS qualifying items.
C10_DistinctCount ==
  C10_InScrape =>
    /\ qualified_count = Cardinality(C10_Qualifying(sales_count))
    /\ qualified_count <= MAX_ITEMS

====
